---- MODULE Spec2Model ----
(***************************************************************************)
(* Worktree pool and parallel test execution of parallel-orchestrator.     *)
(*                                                                         *)
(*   Spec          the WorktreePool of parallel_test/worktree_pool.py in   *)
(*                 one process, driven by one caller: acquire, release,    *)
(*                 expand_pool, shrink_pool; every call is logged in last. *)
(*   SpecSessions  the same pool with persist_state, followed by a second  *)
(*                 process that constructs a pool (load_state) over the    *)
(*                 same pool directory.                                    *)
(*   SpecThreads   one thread per hypothesis id calling the pool through   *)
(*                 its lock.                                               *)
(*   SpecBatch     one batch of FalsificationDebugger.run_session: a       *)
(*                 WorktreeOrchestrator context in pooled mode around the  *)
(*                 test runs of AsyncTestExecutor.                         *)
(*   SpecReload    the pool of one process, its state file (possibly       *)
(*                 edited by hand) and the construction of the next        *)
(*                 process's pool from it.                                 *)
(*   SpecExec      one call of execute_single or execute_parallel of       *)
(*                 AsyncTestExecutor, for any batch, worktree mapping and  *)
(*                 behaviour of the test scripts, followed by the report   *)
(*                 of ResultsAnalyzer or by the same call put to the       *)
(*                 thread-pool TestExecutor of scripts/falsification.      *)
(*   SpecDecide    should_parallelize of AsyncTestExecutor applied to a    *)
(*                 batch and to the batches got from it by raising         *)
(*                 estimated durations; SpecDecideFair adds that the       *)
(*                 durations of all hypotheses keep being raised.          *)
(*   SpecLock      the threads of SpecThreads calling every method that    *)
(*                 takes the lock, get_stats reading field by field;       *)
(*                 SpecLockFair adds that a thread inside cleanup_all      *)
(*                 keeps running.                                          *)
(*   SpecScope     leases taken through `with pool.worktree(id)` and the   *)
(*                 WorktreeOrchestrator context; SpecScopeFair adds that   *)
(*                 the body of a scope ends and its exit code runs.        *)
(*   SpecSound     the caller of Spec when no git command fails.           *)
(*   SpecClean     the caller of Spec whose lease holders write to their   *)
(*                 worktrees.                                              *)
(***************************************************************************)
EXTENDS Integers, FiniteSets, Sequences, TLC

\* ------------------------------------------------------------------ bounds
NumIds == 2          \* hypothesis ids 1..NumIds
MaxCapacity == 2     \* the max_size argument ranges over 1..MaxCapacity
MaxCount == 2        \* the count argument of expand_pool / shrink_pool
MaxTime == 42        \* estimated_test_time of a submitted hypothesis: 0..MaxTime

Ids == 1..NumIds
Repos == {"repoA", "repoB"}
NoId == 0

\* ------------------------------------------------------------------- names
\* f"{WORKTREE_PREFIX}-{n:03d}" (worktree_pool.py:249, 337): the prefix and the
\* ordinal the name is formatted from.
WorktreeName(n) == <<"pool-wt", n>>

NoName == <<"none", 0>>

\* Values of the state file .worktree_pool.json
NoFile == [kind |-> "absent"]
CorruptFile == [kind |-> "corrupt"]

VARIABLES
    available,        \* WorktreePool._available: set of names
    allocated,        \* WorktreePool._allocated: hypothesis id -> name
    worktree_paths,   \* domain of WorktreePool._worktree_paths
    total_created,    \* WorktreePool._total_created
    max_size,         \* WorktreePool.max_size
    ctor_max_size,    \* the max_size argument this pool was constructed with
    base_repo,        \* WorktreePool.base_repo
    fs,               \* names whose directory exists under pool_dir
    state_file,       \* contents of pool_dir/.worktree_pool.json
    process,          \* "first", or "restarted" once a second process runs
    last,             \* the last call and what it returned or raised
    pc,               \* per thread: "idle", "waiting" for the lock, "locked"
    req,              \* per thread: the pool method it is calling
    lock,             \* WorktreePool._lock: NoId when free, else its holder
    granted,          \* paths returned by the acquires since the last other call
    stage,            \* where the batch is inside run_session
    cursor,           \* the hypothesis the create_worktrees loop is at
    active,           \* WorktreeOrchestrator.active_worktrees: id -> worktree
    direct_dirs,      \* ids whose directly created worktree directory exists
    results,          \* the TestExecutionResults produced: by id, or the list returned
    proc,             \* id -> the child process of its test script
    exc,              \* an exception is propagating out of the with block
    times,            \* hypothesis id -> estimated_test_time of the batch asked about
    decision,         \* << >>, or <<b>> once should_parallelize returned b for it
    max_concurrent_tests, \* FalsificationConfig.max_concurrent_tests
    script,           \* hypothesis id -> what its test script does when run
    scope,            \* hypothesis id -> where its scoped acquisition is
    local,            \* thread -> what its call has read so far
    stale,            \* names written to by a lease holder since their last
                      \* successful reset or fresh creation
    status,           \* the HypothesisStatus generate_report gave for each result
    legacy            \* what the thread-pool TestExecutor gives for the same call

poolVars == <<available, allocated, worktree_paths, total_created, max_size,
              ctor_max_size, base_repo, fs, state_file, process>>
threadVars == <<pc, req, lock, granted>>
batchVars == <<stage, cursor, active, direct_dirs, results, proc, exc>>
planVars == <<times, decision>>
runVars == <<max_concurrent_tests, script>>
useVars == <<stale, status, legacy>>
restVars == <<planVars, runVars, scope, local, useVars>>
auxVars == <<threadVars, batchVars, restVars>>
vars == <<poolVars, last, threadVars, batchVars, restVars>>

Range(f) == {f[x] : x \in DOMAIN f}
Max(a, b) == IF a >= b THEN a ELSE b

\* Names bound by a lease
Leased == Range(allocated)

Call(op, id, n, kind, name, count) ==
    [op |-> op, id |-> id, n |-> n, kind |-> kind, name |-> name, count |-> count]

\* -------------------------------------------------------- version-control adapter
\* WorktreePool._create_worktree: an existing directory is reused without any
\* git call; otherwise git worktree add succeeds or raises GitOperationError.
CreateWorktree(name, f, p) ==
    IF name \in f
    THEN {[raised |-> FALSE, fs |-> f, paths |-> p \cup {name}]}
    ELSE {[raised |-> FALSE, fs |-> f \cup {name}, paths |-> p \cup {name}],
          [raised |-> TRUE, fs |-> f, paths |-> p]}

\* WorktreePool._reset_worktree: True, or False on GitOperationError. A missing
\* directory makes subprocess.run raise, which is no GitOperationError.
ResetWorktree(name, f) ==
    IF name \in f THEN {"ok", "failed"} ELSE {"raised"}

\* WorktreePool._remove_worktree over git_utils.remove_worktree: no path entry
\* gives False; git_utils returns normally when the directory is missing and
\* also when git fails (it only logs), so the entry is dropped and True is
\* returned while the directory may remain; any other exception gives False.
RemoveWorktree(name, f, p) ==
    IF name \notin p
    THEN {[ok |-> FALSE, fs |-> f, paths |-> p]}
    ELSE IF name \notin f
    THEN {[ok |-> TRUE, fs |-> f, paths |-> p \ {name}]}
    ELSE {[ok |-> TRUE, fs |-> f \ {name}, paths |-> p \ {name}],
          [ok |-> TRUE, fs |-> f, paths |-> p \ {name}],
          [ok |-> FALSE, fs |-> f, paths |-> p]}

\* ------------------------------------------------------------------ acquire
\* A faulty capacity test (off by one), against which C8 is tested
BelowCapacityOffByOne(total, max) == total <= max

\* acquire, line 248: a new worktree may be created
BelowCapacity(total, max) == total < max

Outcome(av, al, p, t, f, kind, name) ==
    [available |-> av, allocated |-> al, paths |-> p, total |-> t, fs |-> f,
     kind |-> kind, name |-> name, dir |-> "kept", creates_failed |-> 0]

\* What the call did to the directory of the worktree it returns: "reset" by a
\* successful _reset_worktree, "created" by git worktree add, else "kept"
Did(o, what) == [o EXCEPT !.dir = what]

\* _create_worktree, lines 154-156: create_worktree raised once and the
\* GitOperationError is raised again, out of acquire
CreateFailed(o) == [o EXCEPT !.creates_failed = 1]

\* acquire, lines 261-273: reset the chosen worktree (recreate it when the reset
\* fails), then mark it allocated.
ResetAndAllocate(id, name, av, t, f, p) ==
    IF name \notin p
    THEN {Outcome(av, allocated, p, t, f, "KeyError", NoName)}
    ELSE UNION {
        IF r = "ok"
        THEN {Did(Outcome(av, (id :> name) @@ allocated, p, t, f, "path", name),
                  "reset")}
        ELSE IF r = "raised"
        THEN {Outcome(av, allocated, p, t, f, "OSError", NoName)}
        ELSE UNION {
            UNION {
                IF c.raised
                THEN {CreateFailed(Outcome(av, allocated, c.paths, t, c.fs,
                                           "GitOperationError", NoName))}
                ELSE {Did(Outcome(av, (id :> name) @@ allocated, c.paths, t, c.fs,
                                  "path", name),
                          IF name \in rm.fs THEN "kept" ELSE "created")}
                : c \in CreateWorktree(name, rm.fs, rm.paths)}
            : rm \in RemoveWorktree(name, f, p)}
        : r \in ResetWorktree(name, f)}

\* acquire, lines 234-259
AcquireOutcomes(id) ==
    IF id \in DOMAIN allocated
    THEN IF allocated[id] \in worktree_paths
         THEN {Outcome(available, allocated, worktree_paths, total_created, fs,
                       "path", allocated[id])}
         ELSE {Outcome(available, allocated, worktree_paths, total_created, fs,
                       "KeyError", NoName)}
    ELSE IF available # {}
    THEN UNION {ResetAndAllocate(id, name, available \ {name}, total_created,
                                 fs, worktree_paths) : name \in available}
    ELSE IF BelowCapacity(total_created, max_size)
    THEN LET name == WorktreeName(total_created) IN
         UNION {
            IF c.raised
            THEN {CreateFailed(Outcome(available, allocated, worktree_paths,
                                       total_created, fs, "GitOperationError", NoName))}
            ELSE ResetAndAllocate(id, name, available, total_created + 1,
                                  c.fs, c.paths)
            : c \in CreateWorktree(name, fs, worktree_paths)}
    ELSE {Outcome(available, allocated, worktree_paths, total_created, fs,
                  "PoolExhausted", NoName)}

AcquireApply(o) ==
    /\ available' = o.available
    /\ allocated' = o.allocated
    /\ worktree_paths' = o.paths
    /\ total_created' = o.total
    /\ fs' = o.fs
    /\ UNCHANGED <<max_size, ctor_max_size, base_repo, state_file, process>>

\* ------------------------------------------------------------------ release
\* A faulty release that does not return the worktree, against which C7 is
\* tested
ReleaseAvailableForgets(id) == available

\* release, line 293 (and line 290: nothing is added without a lease)
ReleaseAvailable(id) ==
    IF id \in DOMAIN allocated THEN available \cup {allocated[id]} ELSE available

\* A faulty release that leaves the lease in place, against which C27 is tested
ReleaseAllocatedKeeps(id) == allocated

\* release, line 286: self._allocated.pop(hypothesis_id, None)
ReleaseAllocated(id) == [x \in DOMAIN allocated \ {id} |-> allocated[x]]

\* release, lines 288-295: the value returned
ReleaseReturn(id) == IF id \in DOMAIN allocated THEN "true" ELSE "false"

ReleaseApply(id) ==
    /\ available' = ReleaseAvailable(id)
    /\ allocated' = ReleaseAllocated(id)
    /\ UNCHANGED <<worktree_paths, total_created, max_size, ctor_max_size,
                   base_repo, fs, state_file, process>>

\* -------------------------------------------------------------- expand_pool
PoolOutcome(av, p, t, f, n) ==
    [available |-> av, paths |-> p, total |-> t, fs |-> f, count |-> n]

\* A faulty capacity test (off by one), against which C6 is tested
AtCapacityOffByOne(total, max) == total > max

\* expand_pool, line 333
AtCapacity(total, max) == total >= max

\* expand_pool, lines 332-345: the loop with `count` iterations left
RECURSIVE ExpandLoop(_, _, _, _, _, _)
ExpandLoop(count, av, p, t, f, added) ==
    IF count = 0 \/ AtCapacity(t, max_size)
    THEN {PoolOutcome(av, p, t, f, added)}
    ELSE LET name == WorktreeName(t) IN
         UNION {
            IF c.raised
            THEN {PoolOutcome(av, p, t, f, added)}
            ELSE ExpandLoop(count - 1, av \cup {name}, c.paths, t + 1, c.fs, added + 1)
            : c \in CreateWorktree(name, f, p)}

ExpandOutcomes(count) ==
    ExpandLoop(count, available, worktree_paths, total_created, fs, 0)

\* -------------------------------------------------------------- shrink_pool
\* shrink_pool, lines 362-374: the loop with `count` iterations left
RECURSIVE ShrinkLoop(_, _, _, _, _, _)
ShrinkLoop(count, av, p, t, f, removed) ==
    IF count = 0 \/ av = {}
    THEN {PoolOutcome(av, p, t, f, removed)}
    ELSE UNION {
            UNION {
                IF rm.ok
                THEN ShrinkLoop(count - 1, av \ {name}, rm.paths, t - 1, rm.fs,
                                removed + 1)
                ELSE {PoolOutcome(av, rm.paths, t, rm.fs, removed)}
                : rm \in RemoveWorktree(name, f, p)}
            : name \in av}

ShrinkOutcomes(count) ==
    ShrinkLoop(count, available, worktree_paths, total_created, fs, 0)

\* expand_pool and shrink_pool leave the leases alone
ResizeApply(o) ==
    /\ available' = o.available
    /\ worktree_paths' = o.paths
    /\ total_created' = o.total
    /\ fs' = o.fs
    /\ UNCHANGED <<allocated, max_size, ctor_max_size, base_repo, state_file,
                   process>>

\* ------------------------------------------------------------ persist_state
\* list(self._available), and set(state.available_worktrees) on the way back
ListOf(S) == CHOOSE s \in [1..Cardinality(S) -> S] : Range(s) = S
SetOf(s) == Range(s)

\* persist_state, lines 387-394: the WorktreePoolState written as JSON
PoolStateOf(av, al) ==
    [kind |-> "state",
     base_repo |-> base_repo,
     max_size |-> max_size,
     available_worktrees |-> ListOf(av),
     allocated_worktrees |-> al,
     total_worktrees |-> total_created]

PoolState == PoolStateOf(available, allocated)

\* persist_state, lines 396-403: written, or the write fails (the file is then
\* as it was when open() failed, or cut short when the dump failed)
PersistedFile(out, state) ==
    CASE out = "written" -> state
      [] out = "open_failed" -> state_file
      [] out = "dump_failed" -> CorruptFile

PersistOutcomes == {"written", "open_failed", "dump_failed"}

PersistApply(out) ==
    /\ state_file' = PersistedFile(out, PoolState)
    /\ UNCHANGED <<available, allocated, worktree_paths, total_created,
                   max_size, ctor_max_size, base_repo, fs, process>>

\* --------------------------------------------------- __init__ and load_state
\* A load_state that keeps the constructor's max_size, against which C3 is
\* tested
LoadedMaxSizeArgument(arg, persisted) == arg

\* load_state, line 435
LoadedMaxSize(arg, persisted) == Max(arg, persisted)

\* load_state, lines 412-428: whether the file is restored
Restorable(file, repo) == file.kind = "state" /\ file.base_repo = repo

\* A load_state that keeps every recorded name, against which C17 is tested
LoadedAvailableKeepsAll(recorded, disk) == recorded

\* load_state, lines 438-445: a recorded name whose directory is missing is
\* dropped from available
LoadedAvailable(recorded, disk) == recorded \cap disk

\* A state file that parses and names the same base_repo but whose max_size is
\* no number: load_state assigns lines 432-434, line 435 raises TypeError and
\* the handler at lines 454-456 returns False.
MistypedFile(state) == [state EXCEPT !.kind = "mistyped", !.max_size = "ten"]

PartlyRead(file, repo) == file.kind = "mistyped" /\ file.base_repo = repo

\* __init__ (lines 107-125) with load_state (lines 405-456) in a new process:
\* the state in memory starts empty; the directories found on disk are `disk`.
Construct(arg, repo, auto_load, disk) ==
    LET load == auto_load /\ Restorable(state_file, repo)
        part == auto_load /\ PartlyRead(state_file, repo)
        avail == IF load \/ part THEN SetOf(state_file.available_worktrees) ELSE {}
        alloc == IF load \/ part THEN state_file.allocated_worktrees ELSE << >>
    IN  /\ fs' = disk
        /\ base_repo' = repo
        /\ ctor_max_size' = arg
        /\ max_size' = IF load THEN LoadedMaxSize(arg, state_file.max_size) ELSE arg
        /\ total_created' = IF load \/ part THEN state_file.total_worktrees ELSE 0
        /\ allocated' = alloc
        /\ available' = IF load THEN LoadedAvailable(avail, disk) ELSE avail
        /\ worktree_paths' = IF load THEN (avail \cup Range(alloc)) \cap disk ELSE {}
        /\ UNCHANGED state_file

\* get_stats, lines 494-503: capacity_used is total / max_size * 100 formatted
\* with one decimal, here in tenths of a percent
CapacityUsed(total, max) == (total * 2000 + max) \div (2 * max)

GetStats ==
    [total_worktrees |-> total_created,
     available |-> Cardinality(available),
     allocated |-> Cardinality(DOMAIN allocated),
     max_size |-> max_size,
     capacity_used |-> CapacityUsed(total_created, max_size),
     base_repo |-> base_repo]

\* ------------------------------------------------------- one caller (Spec)
\* The call log: off in the specifications that do not read it
Off == Call("off", NoId, 0, "none", NoName, 0)
Log(c) == last' = IF last = Off THEN Off ELSE c

Acquire(id) ==
    \E o \in AcquireOutcomes(id) :
        /\ AcquireApply(o)
        /\ Log(Call("acquire", id, 0, o.kind, o.name, o.creates_failed))
        /\ UNCHANGED auxVars

Release(id) ==
    /\ ReleaseApply(id)
    /\ Log(Call("release", id, 0, ReleaseReturn(id), NoName, 0))
    /\ UNCHANGED auxVars

Expand(count) ==
    \E o \in ExpandOutcomes(count) :
        /\ ResizeApply(o)
        /\ Log(Call("expand_pool", NoId, count, "count", NoName, o.count))
        /\ UNCHANGED auxVars

Shrink(count) ==
    \E o \in ShrinkOutcomes(count) :
        /\ ResizeApply(o)
        /\ Log(Call("shrink_pool", NoId, count, "count", NoName, o.count))
        /\ UNCHANGED auxVars

InitPool ==
    /\ available = {}
    /\ allocated = << >>
    /\ worktree_paths = {}
    /\ total_created = 0
    /\ max_size \in 1..MaxCapacity
    /\ ctor_max_size = max_size
    /\ base_repo = "repoA"
    /\ fs = {}
    /\ state_file = NoFile
    /\ process = "first"

InitThreads ==
    /\ pc = [t \in Ids |-> "idle"]
    /\ req = [t \in Ids |-> "none"]
    /\ lock = NoId
    /\ granted = << >>

\* No batch has been put to should_parallelize
InitPlan ==
    /\ times = << >>
    /\ decision = << >>

\* FalsificationConfig as the caller made it; no test script is looked at
InitConfig ==
    /\ max_concurrent_tests = NumIds
    /\ script = << >>
    /\ scope = [id \in Ids |-> "out"]
    /\ local = [t \in Ids |-> << >>]
    /\ stale = {}
    /\ status = << >>
    /\ legacy = << >>

InitBatch ==
    /\ stage = "new"
    /\ cursor = 1
    /\ active = << >>
    /\ direct_dirs = {}
    /\ results = << >>
    /\ proc = [h \in Ids |-> "none"]
    /\ exc = FALSE

Init ==
    /\ InitPool
    /\ InitThreads
    /\ InitBatch
    /\ InitPlan
    /\ InitConfig
    /\ last = Call("construct", NoId, max_size, "false", NoName, 0)

Next ==
    \/ \E id \in Ids : Acquire(id)
    \/ \E id \in Ids : Release(id)
    \/ \E count \in 1..MaxCount : Expand(count)
    \/ \E count \in 1..MaxCount : Shrink(count)

Spec == Init /\ [][Next]_vars

\* ------------------------------------------- two processes (SpecSessions)
\* persist_state in the first process; what the restarted process writes is
\* read by no process of the model.
Persist ==
    /\ process = "first"
    /\ \E out \in PersistOutcomes : PersistApply(out)
    /\ UNCHANGED <<last, auxVars>>

\* The first process ends (it exits or is killed); before the next one starts,
\* at most one worktree directory is deleted by hand. The next process
\* constructs its pool as WorktreeOrchestrator.__init__ does, with
\* auto_load=True (worktree_orchestrator.py:81-86), which is also the default.
Restart ==
    /\ process = "first"
    /\ process' = "restarted"
    /\ \E arg \in 1..MaxCapacity, repo \in Repos,
          gone \in {{}} \cup {{n} : n \in fs} :
            Construct(arg, repo, TRUE, fs \ gone)
    /\ UNCHANGED <<last, auxVars>>

InitSessions ==
    /\ InitPool
    /\ InitThreads
    /\ InitBatch
    /\ InitPlan
    /\ InitConfig
    /\ last = Off

NextSessions ==
    \/ \E id \in Ids : Acquire(id)
    \/ \E id \in Ids : Release(id)
    \/ \E count \in 1..MaxCount : Expand(count)
    \/ \E count \in 1..MaxCount : Shrink(count)
    \/ Persist
    \/ Restart

SpecSessions == InitSessions /\ [][NextSessions]_vars

\* ------------------------------------------------- threads (SpecThreads)
Methods == {"acquire", "release", "expand_pool", "shrink_pool"}

\* A lock that never makes a thread wait, against which C29 is tested
LockFreeAlways(l) == TRUE

\* threading.Lock: `with self._lock` enters only when no thread holds it
LockFree(l) == l = NoId

\* Thread t calls a pool method for its hypothesis and reaches `with self._lock`
ThreadCall(t, m) ==
    /\ pc[t] = "idle"
    /\ pc' = [pc EXCEPT ![t] = "waiting"]
    /\ req' = [req EXCEPT ![t] = m]
    /\ UNCHANGED <<poolVars, last, restVars, lock, granted, batchVars>>

ThreadLock(t) ==
    /\ pc[t] = "waiting"
    /\ LockFree(lock)
    /\ lock' = t
    /\ pc' = [pc EXCEPT ![t] = "locked"]
    /\ UNCHANGED <<poolVars, last, restVars, req, granted, batchVars>>

\* The body of the method under the lock, and the exit of the with block
ThreadRun(t) ==
    /\ pc[t] = "locked"
    /\ pc' = [pc EXCEPT ![t] = "idle"]
    /\ req' = [req EXCEPT ![t] = "none"]
    /\ lock' = IF lock = t THEN NoId ELSE lock
    /\ UNCHANGED <<last, restVars, batchVars>>
    /\ \/ /\ req[t] = "acquire"
          /\ \E o \in AcquireOutcomes(t) :
                /\ AcquireApply(o)
                /\ granted' = IF o.kind = "path"
                              THEN (t :> o.name) @@ granted
                              ELSE << >>
       \/ /\ req[t] = "release"
          /\ ReleaseApply(t)
          /\ granted' = << >>
       \/ /\ req[t] = "expand_pool"
          /\ \E count \in 1..MaxCount : \E o \in ExpandOutcomes(count) : ResizeApply(o)
          /\ granted' = << >>
       \/ /\ req[t] = "shrink_pool"
          /\ \E count \in 1..MaxCount : \E o \in ShrinkOutcomes(count) : ResizeApply(o)
          /\ granted' = << >>

InitThreaded ==
    /\ InitPool
    /\ InitThreads
    /\ InitBatch
    /\ InitPlan
    /\ InitConfig
    /\ last = Off

NextThreads ==
    \/ \E t \in Ids, m \in Methods : ThreadCall(t, m)
    \/ \E t \in Ids : ThreadLock(t)
    \/ \E t \in Ids : ThreadRun(t)

SpecThreads == InitThreaded /\ [][NextThreads]_vars

\* ------------------------------------------------ one batch (SpecBatch)
\* _create_worktree_direct, line 169: f"{branch_prefix}-{hypothesis_id}"
DirectName(id) == <<"hyp", id>>

PoolWorktree(name) == [kind |-> "pool", name |-> name]
DirectWorktree(id) == [kind |-> "direct", name |-> DirectName(id)]

\* WorktreeOrchestrator.__init__ (a pool with no state file to load) and
\* __enter__
BatchEnter ==
    /\ stage = "new"
    /\ stage' = "creating"
    /\ UNCHANGED <<poolVars, last, restVars, threadVars, cursor, active, direct_dirs,
                   results, proc, exc>>

\* _create_worktree_direct, lines 172-179: the directory exists or is created
\* (the path is returned), or the creation fails (None is returned)
DirectOutcomes(id) ==
    IF id \in direct_dirs
    THEN {[made |-> TRUE, dirs |-> direct_dirs]}
    ELSE {[made |-> TRUE, dirs |-> direct_dirs \cup {id}],
          [made |-> FALSE, dirs |-> direct_dirs]}

\* create_worktrees, lines 130-144: one iteration of the loop over the batch.
\* Only RuntimeError (the pool is exhausted) is caught; any other exception of
\* acquire leaves create_worktrees and the with block.
BatchCreate ==
    /\ stage = "creating"
    /\ \E o \in AcquireOutcomes(cursor) :
        /\ AcquireApply(o)
        /\ \/ /\ o.kind = "path"
              /\ active' = (cursor :> PoolWorktree(o.name)) @@ active
              /\ stage' = IF cursor = NumIds THEN "setup" ELSE "creating"
              /\ cursor' = IF cursor = NumIds THEN cursor ELSE cursor + 1
              /\ UNCHANGED <<direct_dirs, exc>>
           \/ /\ o.kind = "PoolExhausted"
              /\ \E d \in DirectOutcomes(cursor) :
                    /\ direct_dirs' = d.dirs
                    /\ active' = IF d.made
                                 THEN (cursor :> DirectWorktree(cursor)) @@ active
                                 ELSE active
              /\ stage' = IF cursor = NumIds THEN "setup" ELSE "creating"
              /\ cursor' = IF cursor = NumIds THEN cursor ELSE cursor + 1
              /\ UNCHANGED exc
           \/ /\ o.kind \notin {"path", "PoolExhausted"}
              /\ exc' = TRUE
              /\ stage' = "exiting"
              /\ UNCHANGED <<cursor, active, direct_dirs>>
    /\ UNCHANGED <<last, restVars, threadVars, results, proc>>

\* run_session, lines 124-125: worktrees[hyp.id] raises KeyError for a
\* hypothesis that got no worktree
BatchSetup ==
    /\ stage = "setup"
    /\ IF DOMAIN active = Ids
       THEN stage' = "running" /\ UNCHANGED exc
       ELSE stage' = "exiting" /\ exc' = TRUE
    /\ UNCHANGED <<poolVars, last, restVars, threadVars, cursor, active, direct_dirs,
                   results, proc>>

\* A faulty classification with the two outcomes swapped, against which C11
\* is tested
ClassifyInverted(exit_code) == IF exit_code = 0 THEN "FAIL" ELSE "PASS"

\* _classify_test_result, lines 252-255
Classify(exit_code) == IF exit_code = 0 THEN "PASS" ELSE "FAIL"

TimeoutExitCode == 124
ErrorExitCode == 1
ExitCodes == {0, 1, 2}

Result(result, exit_code) == [result |-> result, exit_code |-> exit_code]

\* execute_single_async, lines 129-146 and 178-188: the script is missing or
\* the spawn fails (an ERROR result), or the child process is started
RunStart(h) ==
    /\ stage = "running"
    /\ h \notin DOMAIN results
    /\ proc[h] = "none"
    /\ \/ /\ results' = (h :> Result("ERROR", ErrorExitCode)) @@ results
          /\ UNCHANGED proc
       \/ /\ proc' = [proc EXCEPT ![h] = "running"]
          /\ UNCHANGED results
    /\ UNCHANGED <<poolVars, last, restVars, threadVars, stage, cursor, active,
                   direct_dirs, exc>>

\* execute_single_async, lines 149-176: the child ends within the timeout
RunFinish(h) ==
    /\ stage = "running"
    /\ h \notin DOMAIN results
    /\ proc[h] = "running"
    /\ \E code \in ExitCodes :
          results' = (h :> Result(Classify(code), code)) @@ results
    /\ proc' = [proc EXCEPT ![h] = "exited"]
    /\ UNCHANGED <<poolVars, last, restVars, threadVars, stage, cursor, active,
                   direct_dirs, exc>>

\* _execute_with_timeout, lines 86-96: wait_for cancels the waiting coroutine
\* and the TIMEOUT result is returned; nothing here ends the child process
ProcAfterTimeout(state) == state

RunTimeout(h) ==
    /\ stage = "running"
    /\ h \notin DOMAIN results
    /\ proc[h] = "running"
    /\ results' = (h :> Result("TIMEOUT", TimeoutExitCode)) @@ results
    /\ proc' = [proc EXCEPT ![h] = ProcAfterTimeout(proc[h])]
    /\ UNCHANGED <<poolVars, last, restVars, threadVars, stage, cursor, active,
                   direct_dirs, exc>>

\* A child left running after its timeout ends later: by itself, or killed when
\* its transport is finalised
ChildEnds(h) ==
    /\ h \in DOMAIN results
    /\ proc[h] = "running"
    /\ proc' = [proc EXCEPT ![h] = "exited"]
    /\ UNCHANGED <<poolVars, last, restVars, threadVars, stage, cursor, active,
                   direct_dirs, results, exc>>

\* a pass whose child was started and whose result is not yet produced
Pending(h) == proc[h] = "running" /\ h \notin DOMAIN results

\* run_session, lines 129-173: an exception leaves the with block before the
\* tests run, between them or while the report is made. execute_single and
\* execute_parallel return only when asyncio.run has completed every task they
\* started, so no pass is pending then.
BatchRaise ==
    /\ stage = "running"
    /\ \A h \in Ids : ~Pending(h)
    /\ stage' = "exiting"
    /\ exc' = TRUE
    /\ UNCHANGED <<poolVars, last, restVars, threadVars, cursor, active, direct_dirs,
                   results, proc>>

\* An executor that returns before every hypothesis has its result, against
\* which C28 is tested
ExecutionCompleteEarly == TRUE

\* execute_parallel_async, lines 54-64 (and the list of execute_single calls,
\* run_session line 135): the results of all hypotheses are there
ExecutionComplete == DOMAIN results = Ids

\* run_session, line 173: the with block is left normally
BatchComplete ==
    /\ stage = "running"
    /\ ExecutionComplete
    /\ stage' = "exiting"
    /\ UNCHANGED <<poolVars, last, restVars, threadVars, cursor, active, direct_dirs,
                   results, proc, exc>>

\* An __exit__ that releases nothing once a directly created worktree is
\* active, against which C20 is tested
ReleasedUnlessFallback ==
    IF \E h \in DOMAIN active : active[h].kind = "direct" THEN {} ELSE DOMAIN active

\* An __exit__ that releases only when the with block ended without an
\* exception, against which C9 is tested
ReleasedOnCleanExit == IF exc THEN {} ELSE DOMAIN active

\* __exit__, line 100: the ids released
ReleasedAtExit == DOMAIN active

\* __exit__, lines 98-104 in pooled mode: release every active id, then
\* persist_state
BatchExit ==
    /\ stage = "exiting"
    /\ LET gone == ReleasedAtExit \cap DOMAIN allocated
           av == available \cup {allocated[h] : h \in gone}
           al == [x \in DOMAIN allocated \ gone |-> allocated[x]]
       IN  /\ available' = av
           /\ allocated' = al
           /\ \E out \in PersistOutcomes :
                 state_file' = PersistedFile(out, PoolStateOf(av, al))
    /\ stage' = "done"
    /\ UNCHANGED <<worktree_paths, total_created, max_size, ctor_max_size,
                   base_repo, fs, process, last, restVars, threadVars, cursor, active,
                   direct_dirs, results, proc, exc>>

\* run_session is called again: a new WorktreeOrchestrator constructs its pool
\* with auto_load over the same pool directory and runs the next batch. The
\* model follows the child processes of the current batch only.
BatchAgain ==
    /\ stage = "done"
    /\ Construct(ctor_max_size, base_repo, TRUE, fs)
    /\ stage' = "new"
    /\ cursor' = 1
    /\ active' = << >>
    /\ results' = << >>
    /\ proc' = [h \in Ids |-> "none"]
    /\ exc' = FALSE
    /\ UNCHANGED <<process, last, restVars, threadVars, direct_dirs>>

InitBatched ==
    /\ InitPool
    /\ InitThreads
    /\ InitBatch
    /\ InitPlan
    /\ InitConfig
    /\ last = Off

NextBatch ==
    \/ BatchEnter
    \/ BatchCreate
    \/ BatchSetup
    \/ \E h \in Ids : RunStart(h)
    \/ \E h \in Ids : RunFinish(h)
    \/ \E h \in Ids : RunTimeout(h)
    \/ \E h \in Ids : ChildEnds(h)
    \/ BatchRaise
    \/ BatchComplete
    \/ BatchExit
    \/ BatchAgain

SpecBatch == InitBatched /\ [][NextBatch]_vars

\* ------------------------------------- a pool loaded from disk (SpecReload)
\* The pool of one process with persist_state, a state file that may have been
\* edited outside the program, and the construction of the next process's
\* pool (Restart), at which this specification ends.
FirstAcquire(id) == process = "first" /\ Acquire(id)
FirstRelease(id) == process = "first" /\ Release(id)
FirstExpand(count) == process = "first" /\ Expand(count)
FirstShrink(count) == process = "first" /\ Shrink(count)

\* The state file is edited by hand or by another tool: max_size is no number
FileEdited ==
    /\ process = "first"
    /\ state_file.kind = "state"
    /\ state_file' = MistypedFile(state_file)
    /\ UNCHANGED <<available, allocated, worktree_paths, total_created,
                   max_size, ctor_max_size, base_repo, fs, process, last, auxVars>>

InitReload ==
    /\ InitPool
    /\ InitThreads
    /\ InitBatch
    /\ InitPlan
    /\ InitConfig
    /\ last = Off

NextReload ==
    \/ \E id \in Ids : FirstAcquire(id)
    \/ \E id \in Ids : FirstRelease(id)
    \/ \E count \in 1..MaxCount : FirstExpand(count)
    \/ \E count \in 1..MaxCount : FirstShrink(count)
    \/ Persist
    \/ FileEdited
    \/ Restart

SpecReload == InitReload /\ [][NextReload]_vars

\* ------------------------------------------- the executor alone (SpecExec)
\* One call of execute_single or execute_parallel of AsyncTestExecutor. Here
\* active is the worktrees argument, results the list being returned and
\* proc[h] the course of the task of hypothesis h: "absent" (not in the batch),
\* "none", "missing" (no test script), "unspawned" (the spawn raised),
\* "running", "completed", "expired" (timed out, child still running) and
\* "expired_ended".
\* TestExecutionResult (config.py:83-93) with the fields not given at their
\* defaults: duration here 0, metrics the empty dict
TestExecutionResult(h, result, exit_code) ==
    [hypothesis_id |-> h, result |-> result, exit_code |-> exit_code,
     duration |-> 0, metrics |-> << >>]

\* _calculate_confidence, line 279: `if duration < 5`
ShortThreshold == 5

\* _calculate_confidence (lines 257-282); 0.3, 0.2, 0.6 and 0.85 in hundredths
CalculateConfidence(result, duration) ==
    IF result = "TIMEOUT" THEN 30
    ELSE IF result = "ERROR" THEN 20
    ELSE IF duration < ShortThreshold THEN 60
    ELSE 85

\* execute_single_async, lines 151-176: the result of a run that completed
CompletedResult(h, exit_code, duration) ==
    [TestExecutionResult(h, Classify(exit_code), exit_code) EXCEPT
        !.duration = duration,
        !.metrics = ("confidence" :> CalculateConfidence(Classify(exit_code), duration))]

\* What a test script does when it is run: it is missing, it cannot be
\* spawned, it exits with a code after a duration below the timeout, or it
\* runs past the timeout
Durations == {ShortThreshold - 1, ShortThreshold}
Scripts ==
    {[kind |-> "missing"], [kind |-> "unspawnable"], [kind |-> "slow"]}
    \cup {[kind |-> "exits", code |-> c, duration |-> d] : c \in ExitCodes, d \in Durations}

\* A faulty loop that drops the results of timed-out tasks, against which C12
\* is tested
GatheredUnlessTimeout(list, r) == IF r.result = "TIMEOUT" THEN list ELSE Append(list, r)

\* execute_parallel_async, lines 54-57: results.append(result)
Gathered(list, r) == Append(list, r)

\* The tasks of a call: one per hypothesis of the batch
Tasks(batch) == [h \in Ids |-> IF h \in batch THEN "none" ELSE "absent"]

\* A timeout that cancels the other tasks of the batch, against which C24 is
\* tested
TasksAfterTimeoutCancelled(p, h) ==
    [k \in DOMAIN p |-> IF k = h THEN "expired"
                        ELSE IF p[k] \in {"none", "running"} THEN "cancelled"
                        ELSE p[k]]

\* _execute_with_timeout, lines 86-96: wait_for cancels the coroutine of this
\* task only; the other tasks of as_completed go on
TasksAfterTimeout(p, h) == [p EXCEPT ![h] = "expired"]

\* execute_parallel -> execute_parallel_async, lines 49-51: the list of tasks
\* is built with worktrees[hyp.id], which raises KeyError for a hypothesis the
\* mapping has no worktree for; nothing in execute_parallel catches it.
ExecuteParallel ==
    /\ stage = "new"
    /\ \E batch \in (SUBSET Ids) \ {{}}, mapped \in SUBSET Ids :
        /\ active' = [h \in mapped |-> DirectWorktree(h)]
        /\ script' \in [batch -> Scripts]
        /\ IF batch \subseteq mapped
           THEN /\ stage' = "gathering"
                /\ proc' = Tasks(batch)
                /\ UNCHANGED exc
           ELSE /\ stage' = "raised"
                /\ proc' = Tasks({})
                /\ exc' = TRUE
    /\ UNCHANGED <<poolVars, last, useVars, planVars, max_concurrent_tests, scope, local, threadVars,
                   cursor, direct_dirs, results>>

\* execute_single, line 319: one task for the worktree path given
ExecuteSingle(h) ==
    /\ stage = "new"
    /\ stage' = "gathering"
    /\ active' = (h :> DirectWorktree(h))
    /\ script' \in [{h} -> Scripts]
    /\ proc' = Tasks({h})
    /\ UNCHANGED <<poolVars, last, useVars, planVars, max_concurrent_tests, scope, local, threadVars,
                   cursor, direct_dirs, results, exc>>

\* execute_single_async, lines 129-146 and 178-188: the script is missing (also
\* when the worktree is), the spawn raises, or the child process is started.
\* The script check runs before the first await of the task. Every task of
\* the list starts as soon as the loop runs: nothing reads max_concurrent_tests.
TaskStart(h) ==
    /\ stage = "gathering"
    /\ proc[h] = "none"
    /\ \/ /\ script[h].kind = "missing"
          /\ proc' = [proc EXCEPT ![h] = "missing"]
          /\ results' = Gathered(results, TestExecutionResult(h, "ERROR", ErrorExitCode))
       \/ /\ script[h].kind = "unspawnable"
          /\ proc' = [proc EXCEPT ![h] = "unspawned"]
          /\ results' = Gathered(results, TestExecutionResult(h, "ERROR", ErrorExitCode))
       \/ /\ script[h].kind \in {"exits", "slow"}
          /\ proc' = [proc EXCEPT ![h] = "running"]
          /\ UNCHANGED results
    /\ UNCHANGED <<poolVars, last, restVars, threadVars, stage, cursor, active,
                   direct_dirs, exc>>

\* execute_single_async, lines 149-176: the child ends within the timeout
TaskFinish(h) ==
    /\ stage = "gathering"
    /\ proc[h] = "running"
    /\ script[h].kind = "exits"
    /\ proc' = [proc EXCEPT ![h] = "completed"]
    /\ results' = Gathered(results,
                           CompletedResult(h, script[h].code, script[h].duration))
    /\ UNCHANGED <<poolVars, last, restVars, threadVars, stage, cursor, active,
                   direct_dirs, exc>>

\* _execute_with_timeout, lines 86-96: the timeout expires first
TaskTimeout(h) ==
    /\ stage = "gathering"
    /\ proc[h] = "running"
    /\ script[h].kind = "slow"
    /\ proc' = TasksAfterTimeout(proc, h)
    /\ results' = Gathered(results, TestExecutionResult(h, "TIMEOUT", TimeoutExitCode))
    /\ UNCHANGED <<poolVars, last, restVars, threadVars, stage, cursor, active,
                   direct_dirs, exc>>

\* The child of a timed-out task ends later
TaskChildEnds(h) ==
    /\ proc[h] = "expired"
    /\ proc' = [proc EXCEPT ![h] = "expired_ended"]
    /\ UNCHANGED <<poolVars, last, restVars, threadVars, stage, cursor, active,
                   direct_dirs, results, exc>>

\* execute_parallel_async, lines 59-64: every task has been awaited
ExecReturn ==
    /\ stage = "gathering"
    /\ \A h \in Ids : proc[h] \notin {"none", "running"}
    /\ stage' = "returned"
    /\ UNCHANGED <<poolVars, last, restVars, threadVars, cursor, active, direct_dirs,
                   results, proc, exc>>

\* ------------------------------------------- break-even analysis (SpecDecide)
\* should_parallelize, line 219: overhead = 7 + (16 * n)
BaseOverhead == 7
PerWorktreeOverhead == 16

RECURSIVE SumOf(_)
\* sum(test_times), line 213
SumOf(t) ==
    IF DOMAIN t = {} THEN 0
    ELSE LET h == CHOOSE x \in DOMAIN t : TRUE
         IN  t[h] + SumOf([x \in DOMAIN t \ {h} |-> t[x]])

\* A faulty parallel time that counts the longest test twice, against which
\* C22 is tested
MaxOfTwice(t) == 2 * (CHOOSE m \in Range(t) : \A x \in Range(t) : x <= m)

\* max(test_times), line 220
MaxOf(t) == CHOOSE m \in Range(t) : \A x \in Range(t) : x <= m

\* the smallest estimate of a batch
MinOf(t) == CHOOSE m \in Range(t) : \A x \in Range(t) : m <= x

\* should_parallelize, lines 218-219
Overhead(n) == BaseOverhead + PerWorktreeOverhead * n

\* A faulty break-even test that accepts a saving of zero, against which C21
\* is tested
SavesTimeOrEven(time_saved) == time_saved >= 0

\* should_parallelize, line 225: `if time_saved <= 0: return False`
SavesTime(time_saved) == time_saved > 0

\* AsyncTestExecutor.should_parallelize (lines 190-235) for the batch whose
\* hypotheses have the estimated_test_time t[h]
ShouldParallelize(t) ==
    LET n == Cardinality(DOMAIN t)
    IN  IF n <= 1 THEN FALSE
        ELSE LET sequential_time == SumOf(t)
                 parallel_time == MaxOf(t) + Overhead(n)
             IN  SavesTime(sequential_time - parallel_time)

\* should_parallelize is called for a batch
Decide ==
    /\ decision = << >>
    /\ \E batch \in SUBSET Ids :
        \E t \in [batch -> 0..MaxTime] :
            /\ times' = t
            /\ decision' = <<ShouldParallelize(t)>>
    /\ UNCHANGED <<poolVars, last, useVars, threadVars, batchVars, runVars, scope, local>>

\* The estimate of one hypothesis is raised and should_parallelize is called
\* for the batch again
RaiseOne(h) ==
    /\ decision # << >>
    /\ h \in DOMAIN times
    /\ times[h] < MaxTime
    /\ times' = [times EXCEPT ![h] = @ + 1]
    /\ decision' = <<ShouldParallelize(times')>>
    /\ UNCHANGED <<poolVars, last, useVars, threadVars, batchVars, runVars, scope, local>>

\* The estimates of all hypotheses are raised and should_parallelize is called
\* again; the model stops raising once every estimate has reached MaxTime
RaiseAll ==
    /\ decision # << >>
    /\ DOMAIN times # {}
    /\ MinOf(times) < MaxTime
    /\ times' = [h \in DOMAIN times |-> times[h] + 1]
    /\ decision' = <<ShouldParallelize(times')>>
    /\ UNCHANGED <<poolVars, last, useVars, threadVars, batchVars, runVars, scope, local>>

InitDecide ==
    /\ InitPool
    /\ max_size = 1
    /\ InitThreads
    /\ InitBatch
    /\ InitPlan
    /\ InitConfig
    /\ last = Off

NextDecide ==
    \/ Decide
    \/ \E h \in Ids : RaiseOne(h)
    \/ RaiseAll

SpecDecide == InitDecide /\ [][NextDecide]_vars

\* The caller keeps raising the estimates of all hypotheses
SpecDecideFair == SpecDecide /\ WF_vars(RaiseAll)

\* ------------------------- report and comparison of the executors (SpecExec)
\* ResultsAnalyzer._classify_result, lines 121-128
ClassifyResult(r) ==
    IF r.result = "PASS" \/ r.exit_code = 0 THEN "FALSIFIED"
    ELSE IF r.result = "FAIL" \/ r.exit_code # 0 THEN "SUPPORTED"
    ELSE IF r.result = "TIMEOUT" THEN "INCONCLUSIVE"
    ELSE "INCONCLUSIVE"

\* ResultsAnalyzer.generate_report, lines 58-66, on the list the executor
\* returned (test_hypothesis.py): each result is classified in turn
GenerateReport ==
    /\ stage = "returned"
    /\ stage' = "reported"
    /\ status' = [i \in DOMAIN results |-> ClassifyResult(results[i])]
    /\ UNCHANGED <<poolVars, last, threadVars, cursor, active, direct_dirs, results,
                   proc, exc, planVars, runVars, scope, local, stale, legacy>>

\* FalsificationConfig.min_parallel_time (config.py line 160)
MinParallelTime == 60

\* A faulty classification that passes every completed run, against which C40
\* is tested
ThreadPoolClassifyLenient(exit_code) == "PASS"

\* TestExecutor._classify_test_result (falsification/test_executor.py)
ThreadPoolClassify(exit_code) == IF exit_code = 0 THEN "PASS" ELSE "FAIL"

\* TestExecutor.execute_single for a script that behaves as s: the script is
\* missing, subprocess.run raises, returns, or raises TimeoutExpired; the
\* TIMEOUT result of execute_parallel (future.result timed out) is the same
ThreadPoolResult(h, s) ==
    CASE s.kind = "missing" -> TestExecutionResult(h, "ERROR", ErrorExitCode)
      [] s.kind = "unspawnable" -> TestExecutionResult(h, "ERROR", ErrorExitCode)
      [] s.kind = "slow" -> TestExecutionResult(h, "TIMEOUT", TimeoutExitCode)
      [] s.kind = "exits" ->
            [TestExecutionResult(h, ThreadPoolClassify(s.code), s.code) EXCEPT
                !.duration = s.duration,
                !.metrics = ("confidence" :>
                    CalculateConfidence(ThreadPoolClassify(s.code), s.duration))]

\* TestExecutor.should_parallelize for the batch whose hypotheses have the
\* estimated_test_time t[h]
ThreadPoolShouldParallelize(t) ==
    IF Cardinality(DOMAIN t) <= 1 THEN FALSE
    ELSE IF MaxOf(t) < MinParallelTime THEN FALSE
    ELSE TRUE

\* The call just made is put to the TestExecutor of scripts/falsification with
\* the same hypotheses, worktree mapping, scripts and timeout, and the
\* should_parallelize of both executors to the batch with estimates t.
\* TestExecutor.execute_parallel subscripts worktrees[hyp.id] as well and raises
\* KeyError for a hypothesis without a worktree.
ThreadPoolCompare ==
    /\ stage \in {"returned", "raised"}
    /\ stage' = "compared"
    /\ \E t \in [DOMAIN script -> {0, MinParallelTime}] :
        /\ times' = t
        /\ decision' = <<ShouldParallelize(t)>>
        /\ legacy' = [decision |-> ThreadPoolShouldParallelize(t),
                      raised |-> ~(DOMAIN script \subseteq DOMAIN active),
                      results |-> IF DOMAIN script \subseteq DOMAIN active
                                  THEN [h \in DOMAIN script |->
                                            ThreadPoolResult(h, script[h])]
                                  ELSE << >>]
    /\ UNCHANGED <<poolVars, last, threadVars, cursor, active, direct_dirs, results,
                   proc, exc, runVars, scope, local, stale, status>>

InitExec ==
    /\ InitPool
    /\ max_size = 1
    /\ InitThreads
    /\ InitBatch
    /\ InitPlan
    /\ max_concurrent_tests \in 1..NumIds
    /\ script = << >>
    /\ scope = [id \in Ids |-> "out"]
    /\ local = [t \in Ids |-> << >>]
    /\ stale = {}
    /\ status = << >>
    /\ legacy = << >>
    /\ last = Off

NextExec ==
    \/ ExecuteParallel
    \/ \E h \in Ids : ExecuteSingle(h)
    \/ \E h \in Ids : TaskStart(h)
    \/ \E h \in Ids : TaskFinish(h)
    \/ \E h \in Ids : TaskTimeout(h)
    \/ \E h \in Ids : TaskChildEnds(h)
    \/ ExecReturn
    \/ GenerateReport
    \/ ThreadPoolCompare

SpecExec == InitExec /\ [][NextExec]_vars

\* ------------------------------------- no adapter call fails (SpecSound)
\* The caller of Spec with a version-control adapter that never fails: every
\* git worktree add, reset and git worktree remove does what it is called for.
Min(a, b) == IF a <= b THEN a ELSE b

\* acquire without a failing adapter call: the lease is kept, or the worktree
\* was reset with success (after a successful creation when it is new), or the
\* pool is exhausted
AcquireSound(id) ==
    \E o \in AcquireOutcomes(id) :
        /\ \/ o.kind = "PoolExhausted"
           \/ o.kind = "path" /\ (id \in DOMAIN allocated \/ o.dir = "reset")
        /\ AcquireApply(o)
        /\ Log(Call("acquire", id, 0, o.kind, o.name, o.creates_failed))
        /\ UNCHANGED auxVars

\* expand_pool, lines 332-345, when no creation raises: the loop ends by its
\* count or at capacity
ExpandSound(count) ==
    \E o \in ExpandOutcomes(count) :
        /\ o.count = Min(count, Max(max_size - total_created, 0))
        /\ ResizeApply(o)
        /\ Log(Call("expand_pool", NoId, count, "count", NoName, o.count))
        /\ UNCHANGED auxVars

\* shrink_pool, lines 362-374, when every removal deletes its directory
ShrinkSound(count) ==
    \E o \in ShrinkOutcomes(count) :
        /\ o.count = Min(count, Cardinality(available))
        /\ o.fs \cap (available \ o.available) = {}
        /\ ResizeApply(o)
        /\ Log(Call("shrink_pool", NoId, count, "count", NoName, o.count))
        /\ UNCHANGED auxVars

NextSound ==
    \/ \E id \in Ids : AcquireSound(id)
    \/ \E id \in Ids : Release(id)
    \/ \E count \in 1..MaxCount : ExpandSound(count)
    \/ \E count \in 1..MaxCount : ShrinkSound(count)

SpecSound == Init /\ [][NextSound]_vars

\* ------------------------------------------- use of a worktree (SpecClean)
\* The caller of Spec, whose lease holders write to their worktree:
\* setup_test_environment puts the test script in it and the test runs there
\* (worktree_orchestrator.py lines 198-252).
Use(id) ==
    /\ id \in DOMAIN allocated
    /\ allocated[id] \in fs
    /\ stale' = stale \cup {allocated[id]}
    /\ UNCHANGED <<poolVars, last, threadVars, batchVars, planVars, runVars,
                   scope, local, status, legacy>>

\* acquire, lines 261-267: what an earlier holder wrote is gone from the
\* directory once it was reset with success or created by git worktree add
AcquireUsed(id) ==
    \E o \in AcquireOutcomes(id) :
        /\ AcquireApply(o)
        /\ Log(Call("acquire", id, 0, o.kind, o.name, o.creates_failed))
        /\ stale' = IF o.kind = "path" /\ o.dir \in {"reset", "created"}
                     THEN stale \ {o.name}
                     ELSE stale
        /\ UNCHANGED <<threadVars, batchVars, planVars, runVars, scope, local, status, legacy>>

NextClean ==
    \/ \E id \in Ids : AcquireUsed(id)
    \/ \E id \in Ids : Use(id)
    \/ \E id \in Ids : Release(id)
    \/ \E count \in 1..MaxCount : Expand(count)
    \/ \E count \in 1..MaxCount : Shrink(count)

SpecClean == Init /\ [][NextClean]_vars

\* ------------------------------------------- every locked method (SpecLock)
\* The threads of SpecThreads, which also call persist_state, get_stats,
\* load_state and cleanup_all. get_stats reads the fields of the pool one after
\* the other; load_state reads the file before it takes the lock.
LockedMethods == Methods \cup {"persist_state", "get_stats", "load_state", "cleanup_all"}

\* load_state, lines 412-428, on a pool in use: the file is read and validated
\* outside the lock; a file that is not restored never reaches `with self._lock`
ThreadLoadCall(t) ==
    /\ pc[t] = "idle"
    /\ Restorable(state_file, base_repo)
    /\ pc' = [pc EXCEPT ![t] = "waiting"]
    /\ req' = [req EXCEPT ![t] = "load_state"]
    /\ local' = [local EXCEPT ![t] = state_file]
    /\ UNCHANGED <<poolVars, last, useVars, planVars, runVars, scope, lock, granted, batchVars>>

\* persist_state, lines 386-403
ThreadPersist(t) ==
    /\ pc[t] = "locked"
    /\ req[t] = "persist_state"
    /\ \E out \in PersistOutcomes : PersistApply(out)
    /\ pc' = [pc EXCEPT ![t] = "idle"]
    /\ req' = [req EXCEPT ![t] = "none"]
    /\ lock' = IF lock = t THEN NoId ELSE lock
    /\ UNCHANGED <<last, restVars, granted, batchVars>>

\* load_state, lines 431-446: the restore step, from the file as it was read
ThreadRestore(t) ==
    /\ pc[t] = "locked"
    /\ req[t] = "load_state"
    /\ LET avail == SetOf(local[t].available_worktrees)
           alloc == local[t].allocated_worktrees
       IN  /\ available' = LoadedAvailable(avail, fs)
           /\ allocated' = alloc
           /\ total_created' = local[t].total_worktrees
           /\ max_size' = LoadedMaxSize(max_size, local[t].max_size)
           /\ worktree_paths' = worktree_paths \cup ((avail \cup Range(alloc)) \cap fs)
    /\ pc' = [pc EXCEPT ![t] = "idle"]
    /\ req' = [req EXCEPT ![t] = "none"]
    /\ local' = [local EXCEPT ![t] = << >>]
    /\ lock' = IF lock = t THEN NoId ELSE lock
    /\ UNCHANGED <<ctor_max_size, base_repo, fs, state_file, process, last, useVars,
                   planVars, runVars, scope, granted, batchVars>>

\* get_stats, lines 495-497: the first entries of the dict are evaluated
ThreadReadFirst(t) ==
    /\ pc[t] = "locked"
    /\ req[t] = "get_stats"
    /\ pc' = [pc EXCEPT ![t] = "reading"]
    /\ local' = [local EXCEPT ![t] = [total_worktrees |-> total_created,
                                      available |-> Cardinality(available)]]
    /\ UNCHANGED <<poolVars, last, useVars, planVars, runVars, scope, lock, req, granted,
                   batchVars>>

\* get_stats, lines 498-502: the other entries; the dict is built
ThreadReadRest(t) ==
    /\ pc[t] = "reading"
    /\ pc' = [pc EXCEPT ![t] = "built"]
    /\ local' = [local EXCEPT ![t] =
                    [total_worktrees |-> local[t].total_worktrees,
                     available |-> local[t].available,
                     allocated |-> Cardinality(DOMAIN allocated),
                     max_size |-> max_size,
                     capacity_used |-> CapacityUsed(local[t].total_worktrees, max_size),
                     base_repo |-> base_repo]]
    /\ UNCHANGED <<poolVars, last, useVars, planVars, runVars, scope, lock, req, granted,
                   batchVars>>

\* get_stats, line 495: return leaves the with block with the dict
ThreadReadReturn(t) ==
    /\ pc[t] = "built"
    /\ pc' = [pc EXCEPT ![t] = "idle"]
    /\ req' = [req EXCEPT ![t] = "none"]
    /\ local' = [local EXCEPT ![t] = << >>]
    /\ lock' = IF lock = t THEN NoId ELSE lock
    /\ UNCHANGED <<poolVars, last, useVars, planVars, runVars, scope, granted, batchVars>>

\* cleanup_all, lines 469-471: the worktrees in worktree_paths removed one after
\* the other, each removal possibly failing
RECURSIVE CleanupRemovals(_, _, _)
CleanupRemovals(names, f, p) ==
    IF names = {}
    THEN {f}
    ELSE LET name == CHOOSE n \in names : TRUE
         IN  UNION {CleanupRemovals(names \ {name}, rm.fs, rm.paths)
                        : rm \in RemoveWorktree(name, f, p)}

\* cleanup_all, lines 464-483. With a lease outstanding, line 467 calls release,
\* which waits at line 285 for the lock this thread holds: the call never
\* returns and the lock stays taken.
ThreadCleanup(t) ==
    /\ pc[t] = "locked"
    /\ req[t] = "cleanup_all"
    /\ IF DOMAIN allocated # {}
       THEN /\ pc' = [pc EXCEPT ![t] = "blocked"]
            /\ UNCHANGED <<poolVars, req, lock>>
       ELSE /\ \E f \in CleanupRemovals(worktree_paths, fs, worktree_paths) : fs' = f
            /\ available' = {}
            /\ allocated' = << >>
            /\ worktree_paths' = {}
            /\ total_created' = 0
            /\ state_file' = NoFile
            /\ pc' = [pc EXCEPT ![t] = "idle"]
            /\ req' = [req EXCEPT ![t] = "none"]
            /\ lock' = IF lock = t THEN NoId ELSE lock
            /\ UNCHANGED <<max_size, ctor_max_size, base_repo, process>>
    /\ UNCHANGED <<last, restVars, granted, batchVars>>

NextLock ==
    \/ \E t \in Ids, m \in LockedMethods \ {"load_state"} : ThreadCall(t, m)
    \/ \E t \in Ids : ThreadLoadCall(t)
    \/ \E t \in Ids : ThreadLock(t)
    \/ \E t \in Ids : ThreadRun(t)
    \/ \E t \in Ids : ThreadPersist(t)
    \/ \E t \in Ids : ThreadRestore(t)
    \/ \E t \in Ids : ThreadReadFirst(t)
    \/ \E t \in Ids : ThreadReadRest(t)
    \/ \E t \in Ids : ThreadReadReturn(t)
    \/ \E t \in Ids : ThreadCleanup(t)

\* A pool of one worktree at most, shared by the threads
InitLock ==
    /\ InitThreaded
    /\ max_size = 1

SpecLock == InitLock /\ [][NextLock]_vars

\* A thread that holds the lock inside cleanup_all keeps running
SpecLockFair == SpecLock /\ \A t \in Ids : WF_vars(ThreadCleanup(t))

\* ------------------------------------------- scoped acquisition (SpecScope)
\* Leases taken through a scope: `with pool.worktree(id)` (worktree_pool.py
\* lines 297-318) and the WorktreeOrchestrator context in pooled mode, whose
\* __exit__ releases every id it acquired (worktree_orchestrator.py lines
\* 96-104). scope[id] is "out", "worktree" or "orchestrator" while the body of
\* the scope runs with the lease of id, then "worktree_ending" or
\* "orchestrator_ending" once the body has ended (normally, whatever the
\* result of the pass, or with an exception), and "left".
Scoped == {"worktree", "orchestrator"}
Ending(by) == IF by = "worktree" THEN "worktree_ending" ELSE "orchestrator_ending"

\* pool.worktree(id), line 314, and create_worktrees, line 132: acquire(id); an
\* acquire that raises takes no lease and enters no scope
ScopeEnter(id, by) ==
    /\ scope[id] \in {"out", "left"}
    /\ by = "orchestrator" =>
            \A x \in Ids : scope[x] # "orchestrator_ending"
    /\ \E o \in AcquireOutcomes(id) :
        /\ AcquireApply(o)
        /\ scope' = [scope EXCEPT ![id] = IF o.kind = "path" THEN by ELSE "out"]
    /\ UNCHANGED <<last, useVars, threadVars, batchVars, planVars, runVars, local>>

\* The body of `with pool.worktree(id)` ends: the pass gave PASS, FAIL, TIMEOUT
\* or ERROR, or an exception is propagating
WorktreeBodyEnds(id) ==
    /\ scope[id] = "worktree"
    /\ scope' = [scope EXCEPT ![id] = Ending("worktree")]
    /\ \E e \in BOOLEAN : exc' = e
    /\ UNCHANGED <<poolVars, last, useVars, threadVars, stage, cursor, active, direct_dirs,
                   results, proc, planVars, runVars, local>>

\* pool.worktree, lines 317-318: finally: self.release(hypothesis_id)
WorktreeExit(id) ==
    /\ scope[id] = "worktree_ending"
    /\ ReleaseApply(id)
    /\ scope' = [scope EXCEPT ![id] = "left"]
    /\ UNCHANGED <<last, useVars, threadVars, batchVars, planVars, runVars, local>>

\* The body of the orchestrator's with block ends, normally or with an
\* exception, for all the ids it acquired
OrchestratorBodyEnds ==
    /\ \E id \in Ids : scope[id] = "orchestrator"
    /\ scope' = [id \in Ids |-> IF scope[id] = "orchestrator"
                                THEN Ending("orchestrator") ELSE scope[id]]
    /\ \E e \in BOOLEAN : exc' = e
    /\ UNCHANGED <<poolVars, last, useVars, threadVars, stage, cursor, active, direct_dirs,
                   results, proc, planVars, runVars, local>>

\* WorktreeOrchestrator.__exit__, lines 98-104: release every active id, then
\* persist_state
OrchestratorExit ==
    /\ \E id \in Ids : scope[id] = "orchestrator_ending"
    /\ LET gone == {id \in Ids : scope[id] = "orchestrator_ending"} \cap DOMAIN allocated
           av == available \cup {allocated[h] : h \in gone}
           al == [x \in DOMAIN allocated \ gone |-> allocated[x]]
       IN  /\ available' = av
           /\ allocated' = al
           /\ \E out \in PersistOutcomes :
                 state_file' = PersistedFile(out, PoolStateOf(av, al))
    /\ scope' = [id \in Ids |-> IF scope[id] = "orchestrator_ending"
                                THEN "left" ELSE scope[id]]
    /\ UNCHANGED <<worktree_paths, total_created, max_size, ctor_max_size,
                   base_repo, fs, process, last, useVars, threadVars, batchVars,
                   planVars, runVars, local>>

InitScope ==
    /\ InitPool
    /\ InitThreads
    /\ InitBatch
    /\ InitPlan
    /\ InitConfig
    /\ last = Off

NextScope ==
    \/ \E id \in Ids, by \in Scoped : ScopeEnter(id, by)
    \/ \E id \in Ids : WorktreeBodyEnds(id)
    \/ \E id \in Ids : WorktreeExit(id)
    \/ OrchestratorBodyEnds
    \/ OrchestratorExit

SpecScope == InitScope /\ [][NextScope]_vars

\* The body of a scope ends and Python runs the finally clause or __exit__
SpecScopeFair ==
    /\ SpecScope
    /\ \A id \in Ids : WF_vars(WorktreeBodyEnds(id) \/ WorktreeExit(id))
    /\ WF_vars(OrchestratorBodyEnds \/ OrchestratorExit)

\* ================================================================= claims
memVars == <<available, allocated, worktree_paths, total_created, fs, max_size>>

\* C1: in every state reached by acquire, release, expand_pool and shrink_pool
\* no two distinct hypothesis ids of the lease map are bound to the same
\* snapshot name.
C1_OneLeasePerSnapshot ==
    \A i, j \in DOMAIN allocated : i # j => allocated[i] # allocated[j]

\* C2: the paths returned by acquire calls of different threads with distinct
\* ids, all succeeding and with no other pool call in between, are pairwise
\* distinct (a path is pool_dir / name, so distinct paths are distinct names).
C2_ConcurrentAcquiresDistinct ==
    \A i, j \in DOMAIN granted : i # j => granted[i] # granted[j]

\* C3 as stated: total never exceeds the max_size argument the pool was
\* constructed with, also for a pool constructed from a persisted state.
C3_TotalWithinArgument == total_created <= ctor_max_size

\* C3 amended: total never exceeds the pool's max_size, which is the
\* constructor argument in a pool that loaded nothing and never below it; only
\* a pool that restored a persisted state can hold more than the argument.
C3_TotalWithinMaxSize ==
    /\ total_created <= max_size
    /\ ctor_max_size <= max_size
    /\ process = "first" => max_size = ctor_max_size

C3_Witness ==
    /\ process = "restarted"
    /\ total_created = max_size
    /\ ctor_max_size < total_created

\* C4: acquire(id) for an id that already holds a lease returns the path of the
\* leased snapshot and changes nothing: available, the lease map, total, the
\* path table and the directories stay as they are.
C4_ReacquireIdempotent ==
    [][(last'.op = "acquire" /\ last'.id \in DOMAIN allocated) =>
        /\ last'.kind = "path"
        /\ last'.name = allocated[last'.id]
        /\ UNCHANGED memVars]_vars

\* C5: in every reachable pool state no snapshot name is both in available and
\* the target of a lease.
C5_AvailableLeasedDisjoint == available \cap Leased = {}

\* C6: in every reachable pool state, also after load_state and after an
\* acquire that failed, |available| + (number of leases) <= total <= max_size.
C6_CountsWithinCapacity ==
    /\ Cardinality(available) + Cardinality(DOMAIN allocated) <= total_created
    /\ total_created <= max_size

C6_Witness ==
    /\ process = "restarted"
    /\ allocated # << >>
    /\ Cardinality(available) + Cardinality(DOMAIN allocated) < total_created
    /\ total_created = max_size

\* C7: release(id) for an id holding a lease removes the lease, puts its
\* snapshot into available and returns true; for an id without a lease it
\* returns false and changes nothing.
C7_Release ==
    [][last'.op = "release" =>
        LET id == last'.id IN
        IF id \in DOMAIN allocated
        THEN /\ last'.kind = "true"
             /\ id \notin DOMAIN allocated'
             /\ \A x \in DOMAIN allocated \ {id} :
                    x \in DOMAIN allocated' /\ allocated'[x] = allocated[x]
             /\ available' = available \cup {allocated[id]}
             /\ UNCHANGED <<worktree_paths, total_created, fs, max_size>>
        ELSE /\ last'.kind = "false"
             /\ UNCHANGED memVars]_vars

\* a release of an id without a lease returned false while snapshots are pooled
C7_Witness ==
    /\ last.op = "release"
    /\ last.kind = "false"
    /\ last.id \notin DOMAIN allocated
    /\ available # {}
    /\ allocated # << >>

\* C8: acquire(id) for an id without a lease, with available empty and total at
\* capacity, fails with pool-exhausted and leaves available, the lease map and
\* total unchanged; total grows (a snapshot is added to the pool) only when
\* available is empty and total is below capacity.
C8_ExhaustedOrCreate ==
    [][(last'.op = "acquire" /\ last'.id \notin DOMAIN allocated) =>
        /\ (available = {} /\ total_created = max_size) =>
               (last'.kind = "PoolExhausted" /\ UNCHANGED memVars)
        /\ last'.kind = "PoolExhausted" =>
               (available = {} /\ total_created = max_size)
        /\ total_created' # total_created =>
               /\ available = {}
               /\ total_created < max_size
               /\ total_created' = total_created + 1]_vars

C8_Witness ==
    /\ last.op = "acquire"
    /\ last.kind = "PoolExhausted"
    /\ available = {}
    /\ total_created = max_size
    /\ Cardinality(DOMAIN allocated) < total_created

\* the snapshots the batch leased from the pool
BatchSnapshots == {active[h].name : h \in {x \in DOMAIN active : active[x].kind = "pool"}}

BatchFailed == exc \/ \E h \in DOMAIN results : results[h].result = "TIMEOUT"

\* C9: when a run of the batch raised or timed out inside the orchestrator
\* context, then once the context is left every snapshot the batch leased is in
\* available and no id of the batch is in the lease map.
C9_ReleasedAfterFailure ==
    (stage = "done" /\ BatchFailed) =>
        /\ BatchSnapshots \subseteq available
        /\ DOMAIN allocated \cap Ids = {}

C9_Witness ==
    /\ stage = "done"
    /\ exc
    /\ \E h \in DOMAIN results : results[h].result = "TIMEOUT"
    /\ BatchSnapshots # {}
    /\ BatchSnapshots \subseteq available

\* C10: once the TIMEOUT result of a pass is produced its child process is no
\* longer running, so none runs in a snapshot that is released.
C10_TimedOutChildTerminated ==
    \A h \in DOMAIN results :
        results[h].result = "TIMEOUT" => proc[h] # "running"

\* the results the call holds for hypothesis h
ResultsOf(h) == {i \in DOMAIN results : results[i].hypothesis_id = h}

Submitted == {h \in Ids : proc[h] # "absent"}

\* C11: the classification follows from the outcome of the run alone: a run
\* completed within the timeout is PASS iff its exit code is 0 and FAIL iff it
\* is not; a run that exceeded the timeout is TIMEOUT with exit code 124; a run
\* whose test script is missing is ERROR.
C11_ClassifiedByOutcome ==
    \A i \in DOMAIN results :
        LET r == results[i]
            p == proc[r.hypothesis_id]
        IN  /\ p = "completed" =>
                /\ r.result \in {"PASS", "FAIL"}
                /\ r.result = "PASS" <=> r.exit_code = 0
                /\ r.result = "FAIL" <=> r.exit_code # 0
            /\ p \in {"expired", "expired_ended"} =>
                (r.result = "TIMEOUT" /\ r.exit_code = TimeoutExitCode)
            /\ p = "missing" => r.result = "ERROR"

C11_Witness ==
    /\ stage = "returned"
    /\ \E i, j \in DOMAIN results :
        /\ proc[results[i].hypothesis_id] = "completed"
        /\ results[i].result = "FAIL"
        /\ proc[results[j].hypothesis_id] = "expired"
        /\ results[j].result = "TIMEOUT"

\* C12: when execute_parallel has returned, the list holds exactly one result
\* for each submitted hypothesis id and none for any other, each classified
\* PASS, FAIL, TIMEOUT or ERROR.
C12_OneResultEach ==
    stage = "returned" =>
        /\ \A h \in Submitted : Cardinality(ResultsOf(h)) = 1
        /\ \A i \in DOMAIN results :
            /\ results[i].hypothesis_id \in Submitted
            /\ results[i].result \in {"PASS", "FAIL", "TIMEOUT", "ERROR"}

C12_Witness ==
    /\ stage = "returned"
    /\ Submitted = Ids
    /\ \E i, j \in DOMAIN results :
        /\ results[i].result = "TIMEOUT"
        /\ results[j].result = "ERROR"

\* C13: execute_single and execute_parallel never raise, whatever the batch
\* and the worktree mapping.
C13_NeverRaises == stage # "raised"

\* C14: when obtaining the worktree of a hypothesis failed (acquire raised, or
\* the direct creation failed), the batch still ends with a result for every
\* hypothesis, an ERROR result for each hypothesis without a worktree.
C14_WorktreeFailureContained ==
    (stage = "done" /\ DOMAIN active # Ids) =>
        \A h \in Ids :
            /\ h \in DOMAIN results
            /\ h \notin DOMAIN active => results[h].result = "ERROR"

\* the hypotheses of the batch served by the direct-creation fallback
Fallbacks == {h \in DOMAIN active : active[h].kind = "direct"}

\* C20: in a batch with more hypotheses than the pool can serve, the step that
\* gives a refused hypothesis a directly created worktree leaves the pool's
\* available set, lease map and total unchanged; and when such a batch ends
\* without an exception every hypothesis had a worktree (the refused ones a
\* directly created one) and has a result, no lease is left and every snapshot
\* of the pool is in available.
C20_FallbackBatch ==
    [][/\ (stage = "creating" /\ cursor \notin DOMAIN active
            /\ cursor \in DOMAIN active' /\ active'[cursor].kind = "direct") =>
                /\ UNCHANGED <<available, allocated, total_created>>
                /\ cursor \in direct_dirs'
       /\ (stage = "exiting" /\ stage' = "done" /\ ~exc' /\ Fallbacks' # {}) =>
                /\ DOMAIN active' = Ids
                /\ DOMAIN results' = Ids
                /\ allocated' = << >>
                /\ BatchSnapshots' \subseteq available'
                /\ worktree_paths' \subseteq available']_vars

C20_Witness ==
    /\ stage = "done"
    /\ ~exc
    /\ Fallbacks # {}
    /\ BatchSnapshots # {}
    /\ total_created = max_size
    /\ DOMAIN results = Ids
    /\ BatchSnapshots \subseteq available

\* the step in which the next process constructs its pool
Reloading == process = "first" /\ process' = "restarted"

\* C15: persist_state followed by the construction of a fresh pool with
\* auto_load on the same pool directory, base repository and max_size, the
\* directories untouched, gives a pool whose get_stats equals the original's.
C15_RoundTrip ==
    [][(/\ Reloading
        /\ state_file = PoolState
        /\ base_repo' = base_repo
        /\ ctor_max_size' = max_size
        /\ fs' = fs) => GetStats' = GetStats]_vars

\* C16: in a pool whose load restored a lease id -> s from the state file while
\* the directory of s is missing, acquire(id) returns a path and id is leased.
C16_LeaseRecreated ==
    process = "restarted" =>
        \A id \in DOMAIN allocated :
            (/\ state_file.kind = "state"
             /\ id \in DOMAIN state_file.allocated_worktrees
             /\ state_file.allocated_worktrees[id] = allocated[id]
             /\ allocated[id] \notin fs) =>
                \A o \in AcquireOutcomes(id) :
                    o.kind = "path" /\ id \in DOMAIN o.allocated

\* C17: after a load_state that restored the state file, available is exactly
\* the recorded available names whose directory exists, and each of them has
\* its directory and its path entry, so that acquire can hand it out.
C17_LoadedAvailableExist ==
    [][(Reloading /\ Restorable(state_file, base_repo')) =>
        /\ available' = {n \in SetOf(state_file.available_worktrees) : n \in fs'}
        /\ \A n \in available' : n \in fs' /\ n \in worktree_paths']_vars

C17_Witness ==
    /\ process = "restarted"
    /\ Restorable(state_file, base_repo)
    /\ available # {}
    /\ \E n \in SetOf(state_file.available_worktrees) : n \notin fs /\ n \notin available

\* C18: when load_state rejects the state file (missing, unreadable, malformed
\* or of another base repository) the pool is that of a fresh construction:
\* available and the lease map empty, total 0, max_size the argument.
C18_RejectedLoadIsFresh ==
    [][(Reloading /\ ~Restorable(state_file, base_repo')) =>
        /\ available' = {}
        /\ allocated' = << >>
        /\ total_created' = 0
        /\ max_size' = ctor_max_size']_vars

\* C19: a release that returned true is durable: right after it the state
\* file does not show the released id as leased.
C19_ReleaseDurable ==
    [][(process = "first" /\ process' = "first") =>
        \A id \in DOMAIN allocated \ DOMAIN allocated' :
            ~(state_file'.kind = "state"
              /\ id \in DOMAIN state_file'.allocated_worktrees)]_vars

\* the sum of the estimates of a batch, added up in the order of the ids
RECURSIVE TotalUpTo(_, _)
TotalUpTo(t, k) ==
    IF k = 0 THEN 0
    ELSE (IF k \in DOMAIN t THEN t[k] ELSE 0) + TotalUpTo(t, k - 1)

\* the largest estimate of a batch
Longest(t) == CHOOSE m \in 0..(2 * MaxTime) : (\E h \in DOMAIN t : t[h] = m)
                                             /\ (\A h \in DOMAIN t : t[h] <= m)

\* C21: should_parallelize returns true exactly when the batch has at least two
\* hypotheses and the sum of their estimated durations is strictly greater
\* than the largest duration plus 7 + 16*n, n the batch size; for a batch of
\* size 0 or 1 it returns false whatever the durations.
C21_BreakEven ==
    decision # << >> =>
        LET n == Cardinality(DOMAIN times)
        IN  /\ decision[1] =
                (n >= 2 /\ TotalUpTo(times, NumIds) > Longest(times) + 7 + 16 * n)
            /\ n <= 1 => decision[1] = FALSE

C21_Witness ==
    /\ decision = <<FALSE>>
    /\ Cardinality(DOMAIN times) >= 2
    /\ TotalUpTo(times, NumIds) =
            Longest(times) + 7 + 16 * Cardinality(DOMAIN times)

\* C22: at a fixed batch size n >= 2, raising the estimated duration of any
\* hypothesis (or of all of them) never turns a true decision into false, and
\* when the durations of all hypotheses keep being raised the decision
\* becomes true.
C22_Monotone ==
    /\ [][(decision = <<TRUE>> /\ DOMAIN times' = DOMAIN times)
            => decision' = <<TRUE>>]_vars
    /\ (decision = <<FALSE>> /\ Cardinality(DOMAIN times) >= 2)
            ~> (decision = <<TRUE>>)

C22_Witness ==
    /\ decision = <<TRUE>>
    /\ Cardinality(DOMAIN times) >= 2
    /\ \E h \in DOMAIN times : times[h] > MaxTime

\* the hypotheses whose pass is running
Running == {h \in Ids : proc[h] = "running"}

\* C23: during execute_parallel the number of hypothesis passes running at
\* the same time never exceeds min(max_concurrent_tests, batch size).
C23_ConcurrencyCapped ==
    Cardinality(Running) <=
        (IF max_concurrent_tests <= Cardinality(Submitted)
         THEN max_concurrent_tests ELSE Cardinality(Submitted))

\* classification and exit code of a hypothesis whose script behaves as s, run
\* alone by execute_single with the same timeout
Alone(s) ==
    IF s.kind = "slow" THEN [result |-> "TIMEOUT", exit_code |-> 124]
    ELSE IF s.kind = "exits"
    THEN [result |-> IF s.code = 0 THEN "PASS" ELSE "FAIL", exit_code |-> s.code]
    ELSE [result |-> "ERROR", exit_code |-> 1]

\* C24: when a call of execute_single or execute_parallel has returned, every
\* hypothesis of the batch has the classification and the exit code it gets
\* when run alone with the same script and timeout, whatever the timeouts,
\* errors and failures of the other hypotheses of the batch.
C24_SiblingsIndependent ==
    stage = "returned" =>
        \A h \in Submitted :
            /\ ResultsOf(h) # {}
            /\ \A i \in ResultsOf(h) :
                /\ results[i].result = Alone(script[h]).result
                /\ results[i].exit_code = Alone(script[h]).exit_code

C24_Witness ==
    /\ stage = "returned"
    /\ Len(results) = 2
    /\ results[1].result = "TIMEOUT"
    /\ results[2].result = "PASS"

\* C30: every result returned carries a confidence fixed by its classification
\* and duration: 0.3 for TIMEOUT, 0.2 for ERROR, 0.6 for a completed run
\* shorter than 5 seconds and 0.85 for a completed run of 5 seconds or more
\* (in hundredths).
C30_ConfidenceCarried ==
    \A i \in DOMAIN results :
        LET r == results[i]
        IN  /\ "confidence" \in DOMAIN r.metrics
            /\ r.metrics["confidence"] =
                    (IF r.result = "TIMEOUT" THEN 30
                     ELSE IF r.result = "ERROR" THEN 20
                     ELSE IF r.duration < 5 THEN 60 ELSE 85)

\* C25: shrink_pool(n) removes only snapshots that are in available when it
\* runs: the lease map is unchanged, no directory of a leased snapshot is
\* removed, the returned count r is at most min(n, |available| before the
\* call), and total and |available| each decrease by exactly r.
C25_ShrinkFrame ==
    [][last'.op = "shrink_pool" =>
        LET r == last'.count
        IN  /\ allocated' = allocated
            /\ (fs \ fs') \cap Leased = {}
            /\ (fs \ fs') \subseteq available
            /\ r <= last'.n
            /\ r <= Cardinality(available)
            /\ total_created' = total_created - r
            /\ Cardinality(available') = Cardinality(available) - r]_vars

\* C26: expand_pool(n) returns a count a <= min(n, max_size - total before the
\* call); total and |available| each grow by exactly a and the lease map is
\* unchanged (so that after a failed creation the snapshots created before it
\* are kept and counted).
C26_ExpandFrame ==
    [][last'.op = "expand_pool" =>
        LET a == last'.count
        IN  /\ a <= last'.n
            /\ a <= max_size - total_created
            /\ total_created' = total_created + a
            /\ Cardinality(available') = Cardinality(available) + a
            /\ available \subseteq available'
            /\ allocated' = allocated]_vars

\* C28: for each hypothesis of a batch, the acquisition of its snapshot has
\* completed when its run starts (it has its worktree and, for a pooled one,
\* holds the lease on it), and when its snapshot is released its run is over:
\* its result is produced, or the run was never started.
C28_AcquireRunRelease ==
    [][\A h \in Ids :
        /\ (proc[h] = "none" /\ h \notin DOMAIN results
                /\ (proc'[h] # "none" \/ h \in DOMAIN results')) =>
              /\ h \in DOMAIN active
              /\ active[h].kind = "pool" =>
                    (h \in DOMAIN allocated /\ allocated[h] = active[h].name)
        /\ (stage = "exiting" /\ h \in DOMAIN allocated /\ h \notin DOMAIN allocated') =>
              /\ ~Pending(h)
              /\ h \in DOMAIN results \/ proc[h] = "none"]_vars

C28_Witness ==
    /\ stage = "done"
    /\ ~exc
    /\ BatchSnapshots # {}
    /\ BatchSnapshots \subseteq available
    /\ \E h \in DOMAIN active :
        /\ active[h].kind = "pool"
        /\ h \in DOMAIN results
        /\ results[h].result = "PASS"

\* C27: every lease taken through a scoped acquisition (pool.worktree(id) or
\* the WorktreeOrchestrator context) is eventually released: a scope that is
\* entered is left, whatever the outcome of its body, and whenever a scope is
\* left release(id) has run, so that id holds no lease.
C27_ScopedLeaseReleased ==
    /\ \A id \in Ids : (scope[id] \in Scoped) ~> (scope[id] = "left")
    /\ \A id \in Ids : [](scope[id] = "left" => id \notin DOMAIN allocated)
    /\ [][\A id \in Ids : (scope[id] # "left" /\ scope'[id] = "left") =>
            /\ id \in DOMAIN allocated
            /\ allocated[id] \in available']_vars

C27_Witness ==
    /\ exc
    /\ \E id \in Ids : scope[id] = "left"
    /\ \E id \in Ids : scope[id] = "orchestrator_ending"
    /\ available # {}

\* C29: at any time at most one thread is inside a state-mutating pool
\* operation (acquire, release, expand_pool, shrink_pool, the restore step of
\* load_state, cleanup_all) or is writing the state file, and get_stats returns
\* the values of a single pool state, never a mix of the state before and after
\* a concurrent operation.
Inside(t) == pc[t] \in {"locked", "reading", "built", "blocked"}

C29_OneThreadInside ==
    /\ [](\A t, u \in Ids : (Inside(t) /\ Inside(u)) => t = u)
    /\ [][\A t \in Ids : (Inside(t) /\ poolVars' # poolVars) => pc'[t] # pc[t]]_vars
    /\ [][\A t \in Ids : (pc[t] = "built" /\ pc'[t] = "idle") =>
            local[t] = GetStats]_vars

C29_Witness ==
    \E t, u \in Ids :
        /\ pc[t] = "reading"
        /\ pc[u] = "waiting"
        /\ req[u] \in Methods
        /\ total_created > 0

\* C31: when the reset fails during acquire(id), the snapshot is removed and
\* created again once: if that creation succeeds acquire returns the snapshot
\* leased to id; if it fails the error reaches the caller, id is not in the
\* lease map and the pool is unwound: available and total are what they were
\* before the call. (A reset is attempted only after a snapshot was taken from
\* available or created, so that an acquire from a non-empty available that
\* raises GitOperationError raised it in the second creation.)
C31_ResetFailureUnwound ==
    [][(last'.op = "acquire" /\ last'.id \notin DOMAIN allocated) =>
        /\ last'.kind = "path" =>
              /\ last'.id \in DOMAIN allocated'
              /\ allocated'[last'.id] = last'.name
        /\ last'.kind = "GitOperationError" =>
              /\ last'.id \notin DOMAIN allocated'
              /\ available' = available
              /\ total_created' = total_created]_vars

\* C32: every acquire that newly binds a snapshot to a hypothesis returns it in
\* clean state: between its previous use and the return of the acquire a
\* successful reset or a fresh creation of it has taken place, also when the
\* first reset failed and the removal of the old directory did not succeed.
C32_ReturnedClean ==
    [][(/\ last'.op = "acquire"
        /\ last'.id \notin DOMAIN allocated
        /\ last'.kind = "path") => last'.name \notin stale']_vars

\* C33: a failure of the adapter's create operation during acquire (available
\* empty, total below capacity) is retried once before the error is surfaced:
\* the caller sees the error only after two failed create calls. A failing
\* remove is never raised: no call ends with an error of the removal.
C33_CreateRetriedOnce ==
    [][(/\ last'.op = "acquire"
        /\ last'.id \notin DOMAIN allocated
        /\ available = {}
        /\ total_created < max_size
        /\ last'.kind = "GitOperationError") => last'.count = 2]_vars

\* C34: whenever acquire or expand_pool creates a snapshot, the name it assigns
\* differs from the name of every snapshot that is in available or leased at
\* that moment, for every preceding sequence of acquire, release, expand_pool
\* and shrink_pool.
C34_NewNameUnique ==
    [][(last'.op \in {"acquire", "expand_pool"} /\ total_created' > total_created) =>
        \A n \in total_created..(total_created' - 1) :
            WorktreeName(n) \notin available \cup Leased]_vars

\* C35: cleanup_all returns (it never blocks forever) from every reachable pool
\* state, including states with active leases, and afterwards total is 0,
\* available and the lease map are empty and the state file is absent.
C35_CleanupReturns ==
    /\ \A t \in Ids : (pc[t] = "locked" /\ req[t] = "cleanup_all") ~> (pc[t] = "idle")
    /\ [][\A t \in Ids :
            (pc[t] = "locked" /\ req[t] = "cleanup_all" /\ pc'[t] = "idle") =>
                /\ total_created' = 0
                /\ available' = {}
                /\ allocated' = << >>
                /\ state_file' = NoFile]_vars

\* C36: when a WorktreeOrchestrator context exits, normally or by exception,
\* every worktree it handed out for the batch has been cleaned up: the pooled
\* ones are in the pool's available set, and every directly created one, also
\* those created as pool-exhaustion fallback in pooled mode, has been removed.
C36_CleanedUpAtExit ==
    stage = "done" =>
        /\ BatchSnapshots \subseteq available
        /\ Fallbacks \cap direct_dirs = {}

\* C37: in every reachable pool state in which no lease is held and
\* max_size >= 1, also in states reached through load_state with missing
\* snapshot directories or through acquires that failed on an adapter error,
\* acquire(id) does not fail with pool-exhausted.
C37_NoExhaustionWithoutLease ==
    (allocated = << >> /\ max_size >= 1) =>
        \A id \in Ids : \A o \in AcquireOutcomes(id) : o.kind # "PoolExhausted"

\* C38: when no adapter call fails and the state is not loaded from disk, every
\* state reachable by acquire, release, expand_pool and shrink_pool satisfies
\* total = |available| + (number of distinct leased snapshots).
C38_TotalAccounted ==
    total_created = Cardinality(available) + Cardinality(Leased)

\* C39: ResultsAnalyzer maps each execution result to a hypothesis status by
\* its classification: PASS gives FALSIFIED, FAIL gives SUPPORTED, and both
\* TIMEOUT (exit code 124) and ERROR give INCONCLUSIVE.
C39_StatusByClassification ==
    stage = "reported" =>
        \A i \in DOMAIN results :
            status[i] = CASE results[i].result = "PASS" -> "FALSIFIED"
                          [] results[i].result = "FAIL" -> "SUPPORTED"
                          [] results[i].result \in {"TIMEOUT", "ERROR"} ->
                                 "INCONCLUSIVE"

====
